---- MODULE Spec2Model ----
(***************************************************************************)
(* Posteract: the poster selection-and-retry engine.                       *)
(*                                                                         *)
(* The model follows one run of PosterWorkflow.process_items over a batch  *)
(* of MediaItems: the resolver (PosterOrchestratorService.get_best_poster) *)
(* walks the configured preference list and queries the provider adapters  *)
(* (TmdbService.get_poster, FanartService.get_movie_textless); the         *)
(* coordinator (PosterWorkflow.process_item) then records the task in the  *)
(* Job State store (PosterJobStore); the batch runner turns an exception   *)
(* of one item into a synthetic failed WorkflowResult.                     *)
(*                                                                         *)
(* Python values: None of an Optional[int] is NoneId, None of an           *)
(* Optional[str] is NoneStr, None of an Optional[PosterResult] is          *)
(* NoResult.  Every answer of an external collaborator (provider reply,    *)
(* provider fault, outcome of a download or of a publish) is drawn         *)
(* nondeterministically.                                                   *)
(*                                                                         *)
(* Spec is that run.  SpecSeeded is the same run started on a database     *)
(* that already holds Outcome Cache rows.  SpecJobStore, SpecRepo and      *)
(* SpecAdapters call PosterJobStore, PosterRepository and                  *)
(* TmdbService.get_poster directly, outside a run; op then holds the call  *)
(* that has just returned.  Times are hours; the stores keep UTC.          *)
(***************************************************************************)
EXTENDS Integers, Sequences, FiniteSets, TLC

VARIABLES
    config,        \* the loaded config.yaml: poster_preferences, fanart.enabled
    items,         \* the batch handed to process_items
    idx,           \* process_items: position of the for loop (1-based)
    results,       \* process_items: the results list
    pc,            \* where the run stands
    task,          \* process_item: the PosterTask of the current pass
    pref_i,        \* get_best_poster: position of the for loop over preferences
    calls,         \* the provider adapter calls made by the current get_best_poster
    exc,           \* text of the exception propagating out of process_item
    env,           \* what the transport and the catalogue would answer in this pass
    now,           \* the clock in UTC, in hours
    before,        \* the two stores as they were when the current pass began
    job_store,     \* PosterJobStore: media_id -> row of poster_jobs
    poster_cache,  \* PosterRepository: the rows of table poster_cache
    tz,            \* hours the local clock of the host is ahead of UTC
    op             \* the store, repository or adapter call that has just returned

vars == <<config, items, idx, results, pc, task, pref_i, calls, exc, env, now,
          before, job_store, poster_cache, tz, op>>

\* the variables of a run of process_items, which a direct call of a store, a
\* repository or an adapter leaves alone
run == <<config, items, idx, results, pc, task, pref_i, calls, exc, env, before>>

-----------------------------------------------------------------------------
(* Bounds of the model *)

MaxBatch == 2      \* longest batch handed to process_items
MaxPrefs == 2      \* longest configured poster_preferences list
MaxPosters == 1    \* longest candidate list a provider returns
MaxWork == 4       \* most items and configured preferences of one run, together

-----------------------------------------------------------------------------
(* Python values *)

NoneId == -1
NoneStr == "None"
NoResult == [url |-> NoneStr, type |-> NoneStr]

\* truth value of an Optional[int]: None and 0 are falsy
TruthyInt(n) == n # NoneId /\ n # 0

\* truth value of an Optional[str]: None and "" are falsy
TruthyStr(s) == s # NoneStr /\ s # ""

SeqsUpTo(S, n) == UNION {[1..k -> S] : k \in 0..n}

-----------------------------------------------------------------------------
(* core/models.py *)

MediaItem(plex_id, title, tmdb_id, media_type) ==
    [plex_id |-> plex_id, title |-> title, tmdb_id |-> tmdb_id, media_type |-> media_type]

PosterTask(item) ==
    [item |-> item, chosen_url |-> NoneStr, source_type |-> NoneStr,
     downloaded_file |-> NoneStr, output_file |-> NoneStr, status |-> "pending"]

PosterResult(url, type) == [url |-> url, type |-> type]

WorkflowResult(t, success, message) == [task |-> t, success |-> success, message |-> message]

\* the items a batch is drawn from: with and without catalogue id, with and
\* without subject id
Items ==
    {MediaItem(p, "Demo Movie", t, "movie") : p \in {NoneId, 7}, t \in {NoneId, 603}}

NoItem == MediaItem(NoneId, "", NoneId, "")

-----------------------------------------------------------------------------
(* configuration *)

PrefTags == {"fanart", "textless", "tmdb_en", "tmdb_pt", "tmdb_any", "original"}

Range(s) == {s[k] : k \in 1..Len(s)}

\* config.yaml: the poster_preferences key may be missing; fanart.enabled (with
\* an api_key) decides whether FanartService has a client, which only a
\* preference list that names "fanart" can observe
Configs ==
    {c \in [poster_preferences : [present : {TRUE}, value : SeqsUpTo(PrefTags, MaxPrefs)]
                                    \cup {[present |-> FALSE, value |-> <<>>]},
            fanart_enabled : BOOLEAN] :
        c.fanart_enabled \/ "fanart" \in Range(c.poster_preferences.value)}

\* PosterOrchestratorService.__init__: config.get("poster_preferences", [...])
preferences ==
    IF config.poster_preferences.present
    THEN config.poster_preferences.value
    ELSE <<"textless", "tmdb_en", "tmdb_any">>

\* PosterWorkflow.__init__: (config.get("poster_preferences") or ["textless"])[0]
desired_type ==
    IF config.poster_preferences.present /\ config.poster_preferences.value # <<>>
    THEN config.poster_preferences.value[1]
    ELSE "textless"

-----------------------------------------------------------------------------
(* services/tmdb_service.py *)

image_base == "https://image.tmdb.org/t/p/original"

\* one entry of the "posters" list of a TMDB images reply
TmdbPosters ==
    [iso_639_1 : {NoneStr, "", "en", "pt-BR"}, file_path : {NoneStr, "/a.jpg", "/b.jpg"}]

\* what movie.images() does: raises, or replies with a posters list
TmdbReplies ==
    [fault : {FALSE}, posters : SeqsUpTo(TmdbPosters, MaxPosters)]
        \cup {[fault |-> TRUE, posters |-> <<>>]}

\* TmdbService._get_movie_images: any exception becomes the empty list
_get_movie_images(reply) == IF reply.fault THEN <<>> ELSE reply.posters

\* the first poster, in list order, whose language tag is one of langs and
\* which has a file_path (0: there is none)
FirstMatch(posters, langs) ==
    LET hits == {k \in 1..Len(posters) :
                    posters[k].iso_639_1 \in langs /\ TruthyStr(posters[k].file_path)}
    IN  IF hits = {} THEN 0 ELSE CHOOSE k \in hits : \A j \in hits : k <= j

\* a textless test that also takes the empty tag
Textless_OrEmpty == {NoneStr, ""}

\* the language tags each mode of get_poster accepts
Textless == {NoneStr}
LangEn == {"en"}
LangPt == {"pt", "pt-BR"}

\* a get_poster whose mode tmdb_any looks for the first poster with a file_path
get_poster_AnyScans(posters, mode) ==
    LET langs == IF mode = "textless" THEN Textless
                 ELSE IF mode = "tmdb_en" THEN LangEn
                 ELSE IF mode = "tmdb_pt" THEN LangPt
                 ELSE {p.iso_639_1 : p \in Range(posters)}
        k == FirstMatch(posters, langs)
    IN  IF mode \in {"textless", "tmdb_en", "tmdb_pt", "tmdb_any"} /\ k # 0
        THEN PosterResult(image_base \o posters[k].file_path, mode)
        ELSE NoResult

\* TmdbService.get_poster
get_poster(posters, mode) ==
    IF posters = <<>> THEN NoResult
    ELSE IF mode = "textless" /\ FirstMatch(posters, Textless) # 0
    THEN PosterResult(image_base \o posters[FirstMatch(posters, Textless)].file_path, "textless")
    ELSE IF mode = "tmdb_en" /\ FirstMatch(posters, LangEn) # 0
    THEN PosterResult(image_base \o posters[FirstMatch(posters, LangEn)].file_path, "tmdb_en")
    ELSE IF mode = "tmdb_pt" /\ FirstMatch(posters, LangPt) # 0
    THEN PosterResult(image_base \o posters[FirstMatch(posters, LangPt)].file_path, "tmdb_pt")
    ELSE IF mode = "tmdb_any" /\ TruthyStr(posters[1].file_path)
    THEN PosterResult(image_base \o posters[1].file_path, "tmdb_any")
    ELSE NoResult

-----------------------------------------------------------------------------
(* services/fanart_service.py *)

\* one entry of the "movieposter" list of a Fanart.tv reply, likes already int()
FanartPosters == [likes : {1, 2}, url : {NoneStr, "https://fanart/a", "https://fanart/b"}]

\* what client.get_movie_artwork() does: raises, or replies with a movieposter list
FanartReplies ==
    [fault : {FALSE}, movieposter : SeqsUpTo(FanartPosters, MaxPosters)]
        \cup {[fault |-> TRUE, movieposter |-> <<>>]}

\* sorted(..., reverse=True) is stable: p goes behind every entry with likes >= its own
RECURSIVE InsertByLikes(_, _)
InsertByLikes(p, s) ==
    IF s = <<>> THEN <<p>>
    ELSE IF Head(s).likes >= p.likes THEN <<Head(s)>> \o InsertByLikes(p, Tail(s))
    ELSE <<p>> \o s

RECURSIVE SortedByLikes(_)
SortedByLikes(posters) ==
    IF posters = <<>> THEN <<>>
    ELSE InsertByLikes(posters[Len(posters)], SortedByLikes(SubSeq(posters, 1, Len(posters) - 1)))

\* a get_movie_textless that sorts ascending and takes the last entry: among
\* the entries with the most likes it gives the one listed last
get_movie_textless_AscendingLast(enabled, reply) ==
    IF ~enabled THEN NoResult
    ELSE IF reply.fault THEN NoResult
    ELSE IF reply.movieposter = <<>> THEN NoResult
    ELSE LET top == {k \in 1..Len(reply.movieposter) :
                        \A j \in 1..Len(reply.movieposter) :
                            reply.movieposter[j].likes <= reply.movieposter[k].likes}
             best == reply.movieposter[CHOOSE k \in top : \A j \in top : j <= k]
         IN  IF TruthyStr(best.url) THEN PosterResult(best.url, "fanart_poster") ELSE NoResult

\* FanartService.get_movie_textless; enabled: the service has a client and is
\* enabled, and only then is Fanart.tv asked
get_movie_textless(enabled, reply) ==
    IF ~enabled THEN NoResult
    ELSE IF reply.fault THEN NoResult
    ELSE IF reply.movieposter = <<>> THEN NoResult
    ELSE LET best == SortedByLikes(reply.movieposter)[1]
         IN  IF TruthyStr(best.url) THEN PosterResult(best.url, "fanart_poster") ELSE NoResult

-----------------------------------------------------------------------------
(* utils/db.py: the Job State store *)

NoneTime == NoneId

\* the parameters PosterJobStore.upsert declares (besides self)
UpsertParameters == {"media_id", "tmdb_id", "source_used", "poster_type", "status"}

\* the text of the TypeError Python raises when a call passes a keyword the
\* function does not declare
UnexpectedKeyword(fn, kw) == fn \o "() got an unexpected keyword argument '" \o kw \o "'"

\* PosterJobStore.upsert: INSERT ... ON CONFLICT(media_id) DO UPDATE SET ...
upsert(store, media_id, tmdb_id, source_used, poster_type, status) ==
    IF media_id \in DOMAIN store
    THEN [store EXCEPT ![media_id] =
            [@ EXCEPT !.tmdb_id = tmdb_id, !.source_used = source_used,
                      !.poster_type = poster_type, !.status = status]]
    ELSE store @@ (media_id :>
            [tmdb_id |-> tmdb_id, source_used |-> source_used, poster_type |-> poster_type,
             status |-> status, retry_count |-> 0, last_error |-> NoneStr,
             last_attempt_at |-> NoneTime, next_retry_at |-> NoneTime])

\* a status with which update_status sets a retry timer and counts a retry
ShouldRetry_Always(status) == TRUE

\* update_status: should_retry = status in {"failed", "not_found"}
ShouldRetry(status) == status \in {"failed", "not_found"}

\* update_status: retry_delta = retry_in or timedelta(hours=6); a zero
\* timedelta is falsy
RetryDelta(retry_in) == IF retry_in = NoneTime \/ retry_in = 0 THEN 6 ELSE retry_in

\* PosterJobStore.update_status at UTC time utc: UPDATE ... WHERE media_id = ?
update_status(store, utc, media_id, status, error, retry_in) ==
    IF media_id \notin DOMAIN store THEN store
    ELSE [store EXCEPT ![media_id] =
            [@ EXCEPT !.status = status,
                      !.last_error = error,
                      !.last_attempt_at = utc,
                      !.next_retry_at =
                          IF ShouldRetry(status) THEN utc + RetryDelta(retry_in) ELSE NoneTime,
                      !.retry_count = IF ShouldRetry(status) THEN @ + 1 ELSE @]]

\* a mark_uploaded that keeps the retry counter
mark_uploaded_KeepCount(store, utc, media_id) ==
    IF media_id \notin DOMAIN store THEN store
    ELSE [store EXCEPT ![media_id] =
            [@ EXCEPT !.status = "uploaded", !.last_error = NoneStr,
                      !.next_retry_at = NoneTime, !.last_attempt_at = utc]]

\* PosterJobStore.mark_uploaded at UTC time utc
mark_uploaded(store, utc, media_id) ==
    IF media_id \notin DOMAIN store THEN store
    ELSE [store EXCEPT ![media_id] =
            [@ EXCEPT !.status = "uploaded", !.last_error = NoneStr,
                      !.next_retry_at = NoneTime, !.retry_count = 0,
                      !.last_attempt_at = utc]]

\* a clear that vacuums without deleting
clear_Keep(store) == store

\* PosterJobStore.clear: DELETE FROM poster_jobs
clear(store) == <<>>

-----------------------------------------------------------------------------
(* core/database.py, core/poster_repository.py: the Outcome Cache *)

HoursPerDay == 24

\* one row of table poster_cache; last_checked is SQLite's CURRENT_TIMESTAMP,
\* which is UTC
CacheRow(tmdb_id, media_type, wanted_type, actual_type, poster_url, last_checked) ==
    [tmdb_id |-> tmdb_id, media_type |-> media_type, wanted_type |-> wanted_type,
     actual_type |-> actual_type, poster_url |-> poster_url, last_checked |-> last_checked]

\* fetchone() found nothing
NoRow == CacheRow(NoneId, NoneStr, NoneStr, NoneStr, NoneStr, NoneTime)

\* INSERT OR IGNORE: a second save for the same tmdb_id is dropped
save_result_Ignore(cache, utc, tmdb_id, media_type, wanted_type, actual_type, poster_url) ==
    IF \E k \in 1..Len(cache) : cache[k].tmdb_id = tmdb_id
    THEN cache
    ELSE Append(cache, CacheRow(tmdb_id, media_type, wanted_type, actual_type, poster_url, utc))

\* PosterRepository.save_result at UTC time utc:
\* INSERT ... ON CONFLICT(tmdb_id) DO UPDATE SET ...
save_result(cache, utc, tmdb_id, media_type, wanted_type, actual_type, poster_url) ==
    IF \E k \in 1..Len(cache) : cache[k].tmdb_id = tmdb_id
    THEN [k \in 1..Len(cache) |->
            IF cache[k].tmdb_id = tmdb_id
            THEN CacheRow(tmdb_id, media_type, wanted_type, actual_type, poster_url, utc)
            ELSE cache[k]]
    ELSE Append(cache, CacheRow(tmdb_id, media_type, wanted_type, actual_type, poster_url, utc))

\* PosterRepository.get: SELECT * ... WHERE tmdb_id = ?, fetchone()
get(cache, tmdb_id) ==
    IF \E k \in 1..Len(cache) : cache[k].tmdb_id = tmdb_id
    THEN cache[CHOOSE k \in 1..Len(cache) : cache[k].tmdb_id = tmdb_id]
    ELSE NoRow

\* PosterRepository.mark_checked_now at UTC time utc
mark_checked_now(cache, utc, tmdb_id) ==
    [k \in 1..Len(cache) |->
        IF cache[k].tmdb_id = tmdb_id THEN [cache[k] EXCEPT !.last_checked = utc]
        ELSE cache[k]]

\* datetime.now(): the naive local time of the host
LocalNow == now + tz

\* PosterRepository.needs_retry; clock is the value of datetime.now()
needs_retry(cache, clock, tmdb_id, retry_after_days, wanted_type) ==
    LET row == get(cache, tmdb_id)
    IN  IF row = NoRow THEN FALSE
        ELSE IF row.actual_type = wanted_type THEN FALSE
        ELSE clock - row.last_checked >= retry_after_days * HoursPerDay

\* the rows the WHERE clause of due_retries keeps, as positions in the table
DueRows(cache, utc, retry_after_days, wanted_type) ==
    {k \in 1..Len(cache) :
        /\ cache[k].actual_type # wanted_type
        /\ cache[k].last_checked <= utc - retry_after_days * HoursPerDay}

\* a LIMIT without ORDER BY: the first rows of the table in storage order
Ordered_Unsorted(cache, due) ==
    {[i \in 1..Cardinality(due) |->
        CHOOSE k \in due : Cardinality({j \in due : j < k}) = i - 1]}

\* ORDER BY last_checked ASC: every order of the rows of due that is ascending
\* in last_checked (SQL leaves the order of equal keys open)
Ordered(cache, due) ==
    {f \in [1..Cardinality(due) -> due] :
        /\ \A i, j \in 1..Cardinality(due) : i # j => f[i] # f[j]
        /\ \A i, j \in 1..Cardinality(due) :
              i < j => cache[f[i]].last_checked <= cache[f[j]].last_checked}

\* LIMIT ?: a negative limit is no limit in SQLite
Limited(n, limit) == IF limit < 0 \/ limit > n THEN n ELSE limit

\* PosterRepository.due_retries at UTC time utc: the lists fetchall() may give
due_retries(cache, utc, retry_after_days, wanted_type, limit) ==
    LET due == DueRows(cache, utc, retry_after_days, wanted_type)
    IN  {[i \in 1..Limited(Cardinality(due), limit) |-> cache[f[i]]] :
            f \in Ordered(cache, due)}

\* a call that has returned, with its arguments and its return value
Op(name, args, ret) == [name |-> name, args |-> args, ret |-> ret]

NoOp == Op("none", <<>>, NoneStr)

-----------------------------------------------------------------------------
(* services/orchestrator_service.py: the resolver *)

TmdbModes == {"textless", "tmdb_en", "tmdb_pt", "tmdb_any"}

\* a resolver that lost its guard: every item is looked up
NotTmdbId_Never(tmdb_id) == FALSE

\* get_best_poster: "if not tmdb_id"
NotTmdbId(tmdb_id) == ~TruthyInt(tmdb_id)

\* create_task, after get_best_poster has returned poster
create_task(t, poster) ==
    IF poster # NoResult
    THEN [t EXCEPT !.chosen_url = poster.url, !.source_type = poster.type,
                   !.status = "selected"]
    ELSE [t EXCEPT !.status = "not_found"]

\* a resolver that lost its return: the loop goes on after a hit
ReturnsOnHit_Never(result) == FALSE

\* get_best_poster: the "if result: return ..." that ends the loop
ReturnsOnHit(result) == result # NoResult

\* a resolver that gives up at the first preference without a candidate
AfterPreference_GiveUp(result, poster) ==
    /\ task' = create_task(task, IF result # NoResult THEN poster ELSE NoResult)
    /\ pc' = "upsert"
    /\ pref_i' = pref_i

\* get_best_poster: what follows the body of one loop iteration whose query
\* gave result and would return poster on a hit: return on a hit, take the next
\* preference otherwise, return None when the list is exhausted
AfterPreference(result, poster) ==
    IF ReturnsOnHit(result)
    THEN /\ task' = create_task(task, poster)
         /\ pc' = "upsert"
         /\ pref_i' = pref_i
    ELSE IF pref_i < Len(preferences)
    THEN /\ pref_i' = pref_i + 1
         /\ UNCHANGED <<task, pc>>
    ELSE /\ task' = create_task(task, NoResult)
         /\ pc' = "upsert"
         /\ pref_i' = pref_i

\* one record of the call log: which preference entry, which adapter, whether
\* the provider behind it raised, what the adapter gave
Call(i, provider, mode, fault, result) ==
    [pref |-> i, provider |-> provider, mode |-> mode, fault |-> fault, result |-> result]

-----------------------------------------------------------------------------
(* services/poster_workflow.py: the coordinator and the batch runner *)

\* a _media_key that prefers the subject id to the catalogue id
_media_key_TmdbFirst(item) ==
    IF item.tmdb_id # NoneId THEN "tmdb-" \o ToString(item.tmdb_id)
    ELSE IF item.plex_id # NoneId THEN ToString(item.plex_id)
    ELSE item.title

\* PosterWorkflow._media_key
_media_key(item) ==
    IF item.plex_id # NoneId THEN ToString(item.plex_id)
    ELSE IF item.tmdb_id # NoneId THEN "tmdb-" \o ToString(item.tmdb_id)
    ELSE item.title

\* str.replace(old, new) for a one-character old
RECURSIVE Replace(_, _, _)
Replace(s, old, new) ==
    IF Len(s) = 0 THEN ""
    ELSE (IF SubSeq(s, 1, 1) = old THEN new ELSE SubSeq(s, 1, 1))
             \o Replace(SubSeq(s, 2, Len(s)), old, new)

\* PosterWorkflow._build_filename: f"{tmdb_id or plex_id or title}" with "/"
\* replaced, then "_", the task's source type (or "poster") and ".jpg"
_build_filename(item, t) ==
    LET base == Replace(IF TruthyInt(item.tmdb_id) THEN ToString(item.tmdb_id)
                        ELSE IF TruthyInt(item.plex_id) THEN ToString(item.plex_id)
                        ELSE item.title,
                        "/", "_")
        suffix == IF TruthyStr(t.source_type) THEN t.source_type ELSE "poster"
    IN  base \o "_" \o suffix \o ".jpg"

\* PosterWorkflow._source_from_type
_source_from_type(source_type) ==
    IF ~TruthyStr(source_type) THEN NoneStr
    ELSE IF source_type \in {"fanart", "fanart_poster"} THEN "fanart"
    ELSE "tmdb"

\* the keywords process_item passes to job_store.upsert
UpsertCallKeywords ==
    {"media_id", "tmdb_id", "source_used", "poster_type", "status", "quality_selection"}

\* an except branch that drops the exception text
SyntheticResult_NoMessage(item, message) ==
    WorkflowResult([PosterTask(item) EXCEPT !.status = "failed"], FALSE, "")

\* process_items: the result built in the except branch
SyntheticResult(item, message) ==
    WorkflowResult([PosterTask(item) EXCEPT !.status = "failed"], FALSE, message)

\* what the transport and the catalogue would answer during one pass
\* (overlay: no decoration is configured, apply_overlay gives a file, or it
\* gives None)
Envs == [download_ok : BOOLEAN, overlay : {"off", "ok", "fails"}, publish_ok : BOOLEAN]

NoEnv == [download_ok |-> FALSE, overlay |-> "off", publish_ok |-> FALSE]

-----------------------------------------------------------------------------
(* The run *)

Init ==
    /\ config \in Configs
    /\ items \in SeqsUpTo(Items, MaxBatch)
    /\ Len(items) + Len(config.poster_preferences.value) <= MaxWork
    /\ idx = 1
    /\ results = <<>>
    /\ pc = "idle"
    /\ task = PosterTask(NoItem)
    /\ pref_i = 0
    /\ calls = <<>>
    /\ exc = NoneStr
    /\ env = NoEnv
    /\ now = 0
    /\ before = [job_store |-> <<>>, poster_cache |-> <<>>]
    /\ job_store = <<>>
    /\ poster_cache = <<>>
    /\ tz = 0
    /\ op = NoOp

\* process_items takes the next item; process_item calls create_task, which
\* builds the PosterTask and enters get_best_poster
BeginItem ==
    /\ pc = "idle"
    /\ idx <= Len(items)
    /\ now' = now + 1
    /\ before' = [job_store |-> job_store, poster_cache |-> poster_cache]
    /\ calls' = <<>>
    /\ IF NotTmdbId(items[idx].tmdb_id) \/ preferences = <<>>
       THEN /\ task' = create_task(PosterTask(items[idx]), NoResult)
            /\ pc' = "upsert"
            /\ pref_i' = 0
       ELSE /\ task' = PosterTask(items[idx])
            /\ pc' = "resolve"
            /\ pref_i' = 1
    /\ UNCHANGED <<config, items, idx, results, exc, env, job_store, poster_cache, tz, op>>

\* get_best_poster, pref == "fanart": self.fanart.get_movie_textless(tmdb_id)
QueryFanart ==
    /\ pc = "resolve"
    /\ preferences[pref_i] = "fanart"
    /\ \E reply \in FanartReplies :
         LET result == get_movie_textless(config.fanart_enabled, reply)
         IN  /\ calls' = Append(calls, Call(pref_i, "fanart", "fanart",
                                           config.fanart_enabled /\ reply.fault, result))
             /\ AfterPreference(result, PosterResult(result.url, "fanart"))
    /\ UNCHANGED <<config, items, idx, results, exc, env, now, before,
                   job_store, poster_cache, tz, op>>

\* get_best_poster, pref in the TMDB modes: self.tmdb.get_poster(tmdb_id, mode=pref)
QueryTmdb ==
    /\ pc = "resolve"
    /\ preferences[pref_i] \in TmdbModes
    /\ \E reply \in TmdbReplies :
         LET result == get_poster(_get_movie_images(reply), preferences[pref_i])
         IN  /\ calls' = Append(calls, Call(pref_i, "tmdb", preferences[pref_i],
                                           reply.fault, result))
             /\ AfterPreference(result, result)
    /\ UNCHANGED <<config, items, idx, results, exc, env, now, before,
                   job_store, poster_cache, tz, op>>

\* a resolver that returns None at the first entry it does not know
SkipPreference_Stops ==
    /\ pc = "resolve"
    /\ preferences[pref_i] \notin TmdbModes \cup {"fanart"}
    /\ task' = create_task(task, NoResult)
    /\ pc' = "upsert"
    /\ UNCHANGED <<config, items, idx, results, pref_i, calls, exc, env, now, before,
                   job_store, poster_cache, tz, op>>

\* get_best_poster, any other pref: neither branch of the if/elif is taken
SkipPreference ==
    /\ pc = "resolve"
    /\ preferences[pref_i] \notin TmdbModes \cup {"fanart"}
    /\ AfterPreference(NoResult, NoResult)
    /\ UNCHANGED <<config, items, idx, results, calls, exc, env, now, before,
                   job_store, poster_cache, tz, op>>

\* a coordinator that caches the selection before it is recorded and published
UpsertCall_CachesFirst ==
    /\ pc = "upsert"
    /\ \E e \in Envs : env' = e
    /\ poster_cache' =
          IF TruthyInt(task.item.tmdb_id) /\ task.chosen_url # NoneStr
          THEN save_result(poster_cache, now, task.item.tmdb_id, task.item.media_type,
                           desired_type, task.source_type, task.chosen_url)
          ELSE poster_cache
    /\ pc' = "raised"
    /\ exc' = UnexpectedKeyword("upsert",
                CHOOSE kw \in UpsertCallKeywords \ UpsertParameters : TRUE)
    /\ op' = Op("upsert", [media_id |-> _media_key(task.item), status |-> task.status],
                "TypeError")
    /\ UNCHANGED <<config, items, idx, results, task, pref_i, calls, now,
                   before, job_store, tz>>

\* process_item: self.job_store.upsert(media_id=..., ..., quality_selection=...).
\* Python binds the arguments before it runs the body: a keyword the function
\* does not declare raises TypeError and the store is not touched.  env is
\* the transport and the catalogue the rest of the pass would meet.
UpsertCall ==
    /\ pc = "upsert"
    /\ \E e \in Envs : env' = e
    /\ IF UpsertCallKeywords \subseteq UpsertParameters
       THEN /\ job_store' = upsert(job_store, _media_key(task.item), task.item.tmdb_id,
                                   _source_from_type(task.source_type), task.source_type,
                                   task.status)
            /\ pc' = "recorded"
            /\ exc' = exc
       ELSE /\ pc' = "raised"
            /\ exc' = UnexpectedKeyword("upsert",
                        CHOOSE kw \in UpsertCallKeywords \ UpsertParameters : TRUE)
            /\ job_store' = job_store
    /\ op' = Op("upsert", [media_id |-> _media_key(task.item), status |-> task.status],
                IF UpsertCallKeywords \subseteq UpsertParameters THEN NoneStr ELSE "TypeError")
    /\ UNCHANGED <<config, items, idx, results, task, pref_i, calls, now,
                   before, poster_cache, tz>>

\* a batch runner without the try/except: the exception ends process_items
CatchUnhandled_Abort ==
    /\ pc = "raised"
    /\ pc' = "done"
    /\ UNCHANGED <<config, items, idx, results, task, pref_i, calls, exc, env, now,
                   before, job_store, poster_cache, tz, op>>

\* process_items: except Exception as exc: the pass is over, its locals are gone
CatchUnhandled ==
    /\ pc = "raised"
    /\ results' = Append(results, SyntheticResult(items[idx], exc))
    /\ idx' = idx + 1
    /\ pc' = "idle"
    /\ task' = PosterTask(NoItem)
    /\ pref_i' = 0
    /\ calls' = <<>>
    /\ exc' = NoneStr
    /\ env' = NoEnv
    /\ op' = NoOp
    /\ UNCHANGED <<config, items, now, before, job_store, poster_cache, tz>>

\* process_items: return results
ReturnResults ==
    /\ pc = "idle"
    /\ idx > Len(items)
    /\ pc' = "done"
    /\ UNCHANGED <<config, items, idx, results, task, pref_i, calls, exc, env, now,
                   before, job_store, poster_cache, tz, op>>

Next ==
    \/ BeginItem
    \/ QueryFanart
    \/ QueryTmdb
    \/ SkipPreference
    \/ UpsertCall
    \/ CatchUnhandled
    \/ ReturnResults

Spec == Init /\ [][Next]_vars

-----------------------------------------------------------------------------
(* A run that finds rows in the Outcome Cache *)

\* contents of data/posteract.db left by earlier calls of save_result
SeedCaches ==
    {<<>>,
     save_result(<<>>, 0, 603, "movie", "textless", "tmdb_en", image_base \o "/b.jpg"),
     save_result(save_result(<<>>, 0, 1399, "show", "textless", "textless",
                             image_base \o "/a.jpg"),
                 0, 603, "movie", "textless", "tmdb_any", image_base \o "/b.jpg")}

InitSeeded ==
    /\ config \in {c \in Configs : Len(c.poster_preferences.value) <= 1}
    /\ items \in SeqsUpTo(Items, MaxBatch)
    /\ idx = 1
    /\ results = <<>>
    /\ pc = "idle"
    /\ task = PosterTask(NoItem)
    /\ pref_i = 0
    /\ calls = <<>>
    /\ exc = NoneStr
    /\ env = NoEnv
    /\ now = 1
    /\ poster_cache \in SeedCaches
    /\ before = [job_store |-> <<>>, poster_cache |-> poster_cache]
    /\ job_store = <<>>
    /\ tz = 0
    /\ op = NoOp

SpecSeeded == InitSeeded /\ [][Next]_vars

-----------------------------------------------------------------------------
(* The Job State store, called directly *)

MaxRetries == 3    \* highest retry_count a row is driven to

\* no run of process_items is under way
Standalone ==
    /\ config = [poster_preferences |-> [present |-> FALSE, value |-> <<>>],
                 fanart_enabled |-> TRUE]
    /\ items = <<>>
    /\ idx = 1
    /\ results = <<>>
    /\ pc = "idle"
    /\ task = PosterTask(NoItem)
    /\ pref_i = 0
    /\ calls = <<>>
    /\ exc = NoneStr
    /\ env = NoEnv
    /\ before = [job_store |-> <<>>, poster_cache |-> <<>>]

\* media keys as _media_key builds them for the items of a batch
JobKeys == {_media_key(MediaItem(7, "Demo Movie", 603, "movie")),
            _media_key(MediaItem(NoneId, "Demo Movie", 603, "movie"))}

InitJobStore ==
    /\ Standalone
    /\ now = 0
    /\ job_store = <<>>
    /\ poster_cache = <<>>
    /\ tz = 0
    /\ op = NoOp

\* job_store.upsert(media_id, tmdb_id, source_used, poster_type, status), with
\* the values create_task leaves in a task
StoreUpsert ==
    \E k \in JobKeys, t \in {NoneStr, "textless", "fanart"} :
        LET status == IF t = NoneStr THEN "not_found" ELSE "selected"
        IN  /\ job_store' = upsert(job_store, k, 603, _source_from_type(t), t, status)
            /\ op' = Op("upsert", [media_id |-> k, status |-> status], NoneStr)
            /\ UNCHANGED <<run, now, poster_cache, tz>>

\* job_store.update_status(media_id, status, error, retry_in)
StoreUpdateStatus ==
    \E k \in JobKeys, status \in {"downloaded", "failed", "not_found"},
       retry_in \in {NoneTime, 0, 1} :
        LET error == IF status = "downloaded" THEN NoneStr ELSE "boom"
        IN  /\ k \in DOMAIN job_store => job_store[k].retry_count < MaxRetries
            /\ job_store' = update_status(job_store, now, k, status, error, retry_in)
            /\ op' = Op("update_status",
                        [media_id |-> k, status |-> status, retry_in |-> retry_in], NoneStr)
            /\ UNCHANGED <<run, now, poster_cache, tz>>

\* job_store.mark_uploaded(media_id)
StoreMarkUploaded ==
    \E k \in JobKeys :
        /\ job_store' = mark_uploaded(job_store, now, k)
        /\ op' = Op("mark_uploaded", [media_id |-> k], NoneStr)
        /\ UNCHANGED <<run, now, poster_cache, tz>>

\* job_store.clear()
StoreClear ==
    /\ job_store' = clear(job_store)
    /\ op' = Op("clear", <<>>, NoneStr)
    /\ UNCHANGED <<run, now, poster_cache, tz>>

NextJobStore ==
    \/ StoreUpsert
    \/ StoreUpdateStatus
    \/ StoreMarkUploaded
    \/ StoreClear

SpecJobStore == InitJobStore /\ [][NextJobStore]_vars

-----------------------------------------------------------------------------
(* The Outcome Cache, called directly while time passes *)

MaxTicks == 3      \* how often the clock advances
TickHours == 12    \* hours the clock advances at a time
MaxDays == 1       \* largest retry_after_days asked for
MaxLimit == 2      \* largest limit asked for

\* hosts west of UTC, on UTC and east of UTC
TzOffsets == {-3, 0, 12}

\* the tmdb_ids of the sample items of run_test
CacheIds == {603, 1399}

\* what a pass hands to save_result besides the tmdb_id
SavedOutcomes ==
    {[media_type |-> "movie", wanted_type |-> "textless", actual_type |-> "textless",
      poster_url |-> image_base \o "/a.jpg"],
     [media_type |-> "movie", wanted_type |-> "textless", actual_type |-> "tmdb_en",
      poster_url |-> image_base \o "/b.jpg"],
     [media_type |-> "show", wanted_type |-> "tmdb_en", actual_type |-> "tmdb_any",
      poster_url |-> image_base \o "/b.jpg"]}

WantedTypes == {"textless", "tmdb_en"}

InitRepo ==
    /\ Standalone
    /\ now = 0
    /\ job_store = <<>>
    /\ poster_cache = <<>>
    /\ tz \in TzOffsets
    /\ op = NoOp

\* repository.save_result(tmdb_id, media_type, wanted_type, actual_type, poster_url)
RepoSaveResult ==
    \E id \in CacheIds, o \in SavedOutcomes :
        /\ poster_cache' = save_result(poster_cache, now, id, o.media_type, o.wanted_type,
                                       o.actual_type, o.poster_url)
        /\ op' = Op("save_result", [tmdb_id |-> id, outcome |-> o], NoneStr)
        /\ UNCHANGED <<run, now, job_store, tz>>

\* repository.mark_checked_now(tmdb_id)
RepoMarkCheckedNow ==
    \E id \in CacheIds :
        /\ poster_cache' = mark_checked_now(poster_cache, now, id)
        /\ op' = Op("mark_checked_now", [tmdb_id |-> id], NoneStr)
        /\ UNCHANGED <<run, now, job_store, tz>>

\* repository.needs_retry(tmdb_id, retry_after_days, wanted_type)
RepoNeedsRetry ==
    \E id \in CacheIds, days \in 0..MaxDays, wanted \in WantedTypes :
        /\ op' = Op("needs_retry",
                    [tmdb_id |-> id, retry_after_days |-> days, wanted_type |-> wanted],
                    needs_retry(poster_cache, LocalNow, id, days, wanted))
        /\ UNCHANGED <<run, now, job_store, poster_cache, tz>>

\* repository.due_retries(retry_after_days, wanted_type, limit)
RepoDueRetries ==
    \E days \in 0..MaxDays, wanted \in WantedTypes, limit \in 0..MaxLimit :
        \E rows \in due_retries(poster_cache, now, days, wanted, limit) :
            /\ op' = Op("due_retries",
                        [retry_after_days |-> days, wanted_type |-> wanted, limit |-> limit],
                        rows)
            /\ UNCHANGED <<run, now, job_store, poster_cache, tz>>

\* time passes between two calls
RepoTick ==
    /\ now < MaxTicks * TickHours
    /\ now' = now + TickHours
    /\ op' = NoOp
    /\ UNCHANGED <<run, job_store, poster_cache, tz>>

NextRepo ==
    \/ RepoSaveResult
    \/ RepoMarkCheckedNow
    \/ RepoNeedsRetry
    \/ RepoDueRetries
    \/ RepoTick

SpecRepo == InitRepo /\ [][NextRepo]_vars

-----------------------------------------------------------------------------
(* The TMDB adapter, called directly *)

MaxCandidates == 2    \* longest posters list of a reply to a direct call

\* what movie.images() does when get_poster is called directly
CandidateReplies ==
    [fault : {FALSE}, posters : SeqsUpTo(TmdbPosters, MaxCandidates)]
        \cup {[fault |-> TRUE, posters |-> <<>>]}

\* the modes get_poster is called with: the four it knows and one it does not
Modes == TmdbModes \cup {"original"}

\* what client.get_movie_artwork() does when get_movie_textless is called directly
FanartCandidateReplies ==
    [fault : {FALSE}, movieposter : SeqsUpTo(FanartPosters, MaxCandidates)]
        \cup {[fault |-> TRUE, movieposter |-> <<>>]}

\* a call of get_poster or of get_movie_textless is about to be made
InitAdapters ==
    /\ Standalone
    /\ now = 0
    /\ job_store = <<>>
    /\ poster_cache = <<>>
    /\ tz = 0
    /\ op \in {Op("pending", [call |-> "get_poster", reply |-> reply, mode |-> mode],
                   NoneStr) : reply \in CandidateReplies, mode \in Modes}
             \cup {Op("pending", [call |-> "get_movie_textless", enabled |-> enabled,
                                  reply |-> reply], NoneStr) :
                      enabled \in BOOLEAN, reply \in FanartCandidateReplies}

\* tmdb.get_poster(tmdb_id, mode) runs and returns
AdapterGetPoster ==
    /\ op.name = "pending"
    /\ op.args.call = "get_poster"
    /\ op' = Op("get_poster", op.args,
                get_poster(_get_movie_images(op.args.reply), op.args.mode))
    /\ UNCHANGED <<run, now, job_store, poster_cache, tz>>

\* fanart.get_movie_textless(tmdb_id) runs and returns
AdapterGetMovieTextless ==
    /\ op.name = "pending"
    /\ op.args.call = "get_movie_textless"
    /\ op' = Op("get_movie_textless", op.args,
                get_movie_textless(op.args.enabled, op.args.reply))
    /\ UNCHANGED <<run, now, job_store, poster_cache, tz>>

NextAdapters ==
    \/ AdapterGetPoster
    \/ AdapterGetMovieTextless

SpecAdapters == InitAdapters /\ [][NextAdapters]_vars

-----------------------------------------------------------------------------
(* main.py: handle_reset, services/plex_client.py: the reset operation *)

MaxItems == 2      \* most items of one library section

\* what clearing the poster of one catalogue item does: resetPoster() works,
\* there is no resetPoster and deletePoster() works, the item has neither
\* method, or the call raises
ResetOutcomes == {"reset", "delete", "none", "raises"}

\* server.library.sections(): two sections, each with the items section.all() gives
Catalogues ==
    {<<[title |-> "Movies", items |-> a], [title |-> "TV", items |-> b]>> :
        a, b \in SeqsUpTo(ResetOutcomes, MaxItems)}

\* the libraries argument of handle_reset; None and the empty list are <<>>
LibraryNames == {<<>>, <<"Movies">>, <<"TV", "Movies">>, <<"Music">>}

\* a loop whose try encloses the for: the first failure ends the section
RECURSIVE ResetSection_StopAtFailure(_)
ResetSection_StopAtFailure(outcomes) ==
    IF outcomes = <<>> THEN [total |-> 0, attempted |-> 0]
    ELSE IF Head(outcomes) = "raises" THEN [total |-> 0, attempted |-> 1]
    ELSE LET rest == ResetSection_StopAtFailure(Tail(outcomes))
         IN  [total |-> rest.total + 1, attempted |-> rest.attempted + 1]

\* reset_library_posters: for item in section.all(): try ... total += 1 except ...;
\* attempted counts the items whose try block was entered
RECURSIVE ResetSection(_)
ResetSection(outcomes) ==
    IF outcomes = <<>> THEN [total |-> 0, attempted |-> 0]
    ELSE LET rest == ResetSection(Tail(outcomes))
         IN  [total |-> rest.total + (IF Head(outcomes) = "raises" THEN 0 ELSE 1),
              attempted |-> rest.attempted + 1]

\* reset_library_posters: "if libraries and section.title not in libraries: continue"
Skipped(section, library_names) ==
    library_names # <<>> /\ section.title \notin Range(library_names)

\* PlexClient.reset_library_posters
RECURSIVE reset_library_posters(_, _)
reset_library_posters(sections, library_names) ==
    IF sections = <<>> THEN [total |-> 0, attempted |-> 0]
    ELSE LET rest == reset_library_posters(Tail(sections), library_names)
             this == IF Skipped(Head(sections), library_names)
                     THEN [total |-> 0, attempted |-> 0]
                     ELSE ResetSection(Head(sections).items)
         IN  [total |-> this.total + rest.total,
              attempted |-> this.attempted + rest.attempted]

\* Job State stores left by earlier writes: empty, one row that failed once,
\* that row and a second one that was not found twice
SeedStores ==
    LET one == update_status(upsert(<<>>, "7", 603, "tmdb", "textless", "selected"),
                             0, "7", "failed", "boom", NoneTime)
        two == update_status(update_status(
                   upsert(one, "tmdb-603", 603, NoneStr, NoneStr, "not_found"),
                   0, "tmdb-603", "not_found", "No poster available", NoneTime),
                   0, "tmdb-603", "not_found", "No poster available", NoneTime)
    IN  {<<>>, one, two}

InitReset ==
    /\ Standalone
    /\ now = 1
    /\ job_store \in SeedStores
    /\ poster_cache = <<>>
    /\ tz = 0
    /\ op = NoOp

\* handle_reset(config, job_store, libraries): clear_cache, job_store.clear(),
\* reset_library_posters, in this order; rmtree or the listing of the
\* sections may raise, which ends handle_reset where it stands
HandleReset ==
    /\ op.name = "none"
    /\ \E library_names \in LibraryNames, sections \in Catalogues,
          cache_ok \in BOOLEAN, catalogue_ok \in BOOLEAN :
         LET count == reset_library_posters(sections, library_names)
         IN  /\ job_store' = IF cache_ok THEN clear(job_store) ELSE job_store
             /\ op' = Op("handle_reset",
                         [libraries |-> library_names, sections |-> sections,
                          cache_ok |-> cache_ok, catalogue_ok |-> catalogue_ok,
                          found |-> job_store],
                         IF cache_ok /\ catalogue_ok
                         THEN [completed |-> TRUE, touched |-> count.total,
                               attempted |-> count.attempted]
                         ELSE [completed |-> FALSE, touched |-> 0, attempted |-> 0])
    /\ UNCHANGED <<run, now, poster_cache, tz>>

\* the first write to the Job State store after a reset
UpsertAfterReset ==
    /\ op.name = "handle_reset"
    /\ StoreUpsert

NextReset ==
    \/ HandleReset
    \/ UpsertAfterReset

SpecReset == InitReset /\ [][NextReset]_vars

-----------------------------------------------------------------------------
(* the local filenames of two items of one batch: poster_workflow.py 74-76
   builds the filename of a selected task and hands it to _download, which
   opens cache_dir / filename for writing *)

\* the media items of a library that get_best_poster can select a candidate
\* for: rating keys are unique, a subject id is unique per media type only, and
\* two entries of a library may be copies of one subject
LibraryItems ==
    {item \in {MediaItem(p, title, t, media_type) :
                  p \in {NoneId, 7, 8}, title \in {"Demo Movie", "Demo Show"},
                  t \in {603, 1399}, media_type \in {"movie", "show"}} :
        ~NotTmdbId(item.tmdb_id)}

\* two different entries of a library: no two entries share a rating key
DifferentItems(a, b) == a # b /\ (a.plex_id = NoneId \/ a.plex_id # b.plex_id)

\* the type tags a provider result carries
ResultTypes == {"fanart", "textless", "tmdb_any"}

\* the selected task of an item whose candidate has the given type
SelectedTask(item, type) ==
    create_task(PosterTask(item), PosterResult("https://poster", type))

\* two different items of a batch have been resolved; their filenames are to be built
InitFilenames ==
    /\ Standalone
    /\ now = 0
    /\ job_store = <<>>
    /\ poster_cache = <<>>
    /\ tz = 0
    /\ op \in {Op("pending", [first |-> SelectedTask(a, ta), second |-> SelectedTask(b, tb)],
                   NoneStr) :
                 <<a, b>> \in {pair \in LibraryItems \X LibraryItems :
                                  DifferentItems(pair[1], pair[2])},
                 <<ta, tb>> \in ResultTypes \X ResultTypes}

\* self._build_filename(item, task) for each of the two tasks
BuildFilenames ==
    /\ op.name = "pending"
    /\ op' = Op("_build_filename", op.args,
                <<_build_filename(op.args.first.item, op.args.first),
                  _build_filename(op.args.second.item, op.args.second)>>)
    /\ UNCHANGED <<run, now, job_store, poster_cache, tz>>

NextFilenames == BuildFilenames

SpecFilenames == InitFilenames /\ [][NextFilenames]_vars

-----------------------------------------------------------------------------
(* Properties *)

Recognised(pref) == pref \in TmdbModes \cup {"fanart"}

Hit(k) == calls[k].result # NoResult

\* get_best_poster has returned for the current pass
Resolved == pc \in {"upsert", "recorded", "raised"}

\* process_item is over for the current item: it returned or it raised
PassOver == pc \in {"returned", "raised"}

\* the resolver handed the pass a candidate
Selected == task.chosen_url # NoneStr

\* the catalogue would accept the upload of this pass
PublishSucceeds == TruthyInt(task.item.plex_id) /\ env.publish_ok

\* the Job State row of the current item
Key == _media_key(task.item)

\* retry_count of the item's row when the pass began (a fresh row starts at 0)
RetryBefore ==
    IF Key \in DOMAIN before.job_store THEN before.job_store[Key].retry_count ELSE 0

\* update_status: retry_delta = retry_in or timedelta(hours=6)
DefaultRetryHours == 6

\* C1: get_best_poster queries the preference entries in order, one adapter call
\* per recognised entry; the call that gives a candidate is the last call made,
\* the candidate returned is that call's, and when no call gives one every
\* recognised entry was queried and the result is absent.
C1_Theorem ==
    /\ \A k \in 1..Len(calls) :
         /\ calls[k].pref \in 1..Len(preferences)
         /\ calls[k].mode = preferences[calls[k].pref]
         /\ calls[k].provider = (IF calls[k].mode = "fanart" THEN "fanart" ELSE "tmdb")
         /\ k < Len(calls) => calls[k].pref < calls[k + 1].pref
         /\ Hit(k) => k = Len(calls) /\ pc # "resolve"
    /\ pc = "resolve" =>
         \A j \in 1..(pref_i - 1) :
            Recognised(preferences[j]) => \E k \in 1..Len(calls) : calls[k].pref = j
    /\ (Resolved /\ task.item.tmdb_id # NoneId) =>
         IF \E k \in 1..Len(calls) : Hit(k)
         THEN /\ task.status = "selected"
              /\ task.chosen_url = calls[Len(calls)].result.url
              /\ task.source_type = calls[Len(calls)].mode
              /\ \A j \in 1..(calls[Len(calls)].pref - 1) :
                    Recognised(preferences[j]) =>
                        \E k \in 1..(Len(calls) - 1) : calls[k].pref = j /\ ~Hit(k)
         ELSE /\ task.status = "not_found"
              /\ task.chosen_url = NoneStr
              /\ \A j \in 1..Len(preferences) :
                    Recognised(preferences[j]) => \E k \in 1..Len(calls) : calls[k].pref = j

\* a hit on the second entry queried while a later entry is left unqueried
C1_Witness ==
    /\ pc = "upsert"
    /\ Len(calls) = 2
    /\ ~Hit(1)
    /\ Hit(2)
    /\ calls[2].pref < Len(preferences)
    /\ Recognised(preferences[Len(preferences)])

\* C2: for an item without tmdb_id, get_best_poster returns absent and calls
\* no provider adapter.
C2_Theorem ==
    (pc \in {"resolve", "upsert", "recorded", "raised"} /\ task.item.tmdb_id = NoneId) =>
        /\ pc # "resolve"
        /\ calls = <<>>
        /\ task.status = "not_found"
        /\ task.chosen_url = NoneStr
        /\ task.source_type = NoneStr

\* an item without tmdb_id resolved under a preference list that names a provider
C2_Witness ==
    /\ pc = "upsert"
    /\ task.item.tmdb_id = NoneId
    /\ task.item.title # ""
    /\ \E j \in 1..Len(preferences) : Recognised(preferences[j])

\* C3 as claimed: once process_item is over for an item, returned or raised,
\* the Job State store holds a row under the item's media key whose status is
\* the last status of the task.
C3_Claim ==
    PassOver => (Key \in DOMAIN job_store /\ job_store[Key].status = task.status)

\* C4: process_items returns one result per item, in input order.
C4_Theorem ==
    /\ Len(results) = idx - 1
    /\ Len(results) <= Len(items)
    /\ \A i \in 1..Len(results) : results[i].task.item = items[i]
    /\ pc = "done" => Len(results) = Len(items)

\* a finished batch of two different items
C4_Witness ==
    /\ pc = "done"
    /\ Len(items) >= 2
    /\ items[1] # items[2]
    /\ Len(results) = Len(items)

\* C5: when process_item raises, process_items appends for that item a result
\* with success false, a fresh task of status "failed" and the exception text
\* as message, goes on with the next item leaving batch and stores as they
\* were, and the result recorded for an item does not depend on the other
\* items of the batch.
C5_Theorem ==
    /\ [](\A i, j \in 1..Len(results) : items[i] = items[j] => results[i] = results[j])
    /\ [][pc = "raised" =>
            /\ exc # NoneStr
            /\ results' = Append(results,
                   [task |-> [item |-> items[idx], chosen_url |-> NoneStr,
                              source_type |-> NoneStr, downloaded_file |-> NoneStr,
                              output_file |-> NoneStr, status |-> "failed"],
                    success |-> FALSE, message |-> exc])
            /\ idx' = idx + 1
            /\ pc' = "idle"
            /\ items' = items
            /\ job_store' = job_store
            /\ poster_cache' = poster_cache]_vars

\* a batch in which the first item raised and the second was still processed
C5_Witness ==
    /\ pc = "done"
    /\ Len(results) >= 2
    /\ ~results[1].success
    /\ results[1].task.status = "failed"
    /\ results[1].message \notin {"", NoneStr}
    /\ results[2].task.item = items[2]

\* C6 as claimed: a pass that selects a candidate, whose download and publish
\* succeed, returns success and leaves the item's row uploaded with
\* retry_count 0, no last_error and no next_retry_at.
C6_Claim ==
    (PassOver /\ Selected /\ env.download_ok /\ PublishSucceeds) =>
        /\ pc = "returned"
        /\ Key \in DOMAIN job_store
        /\ job_store[Key].status = "uploaded"
        /\ job_store[Key].retry_count = 0
        /\ job_store[Key].last_error = NoneStr
        /\ job_store[Key].next_retry_at = NoneTime

\* C7 as claimed: after such a pass for an item with a tmdb_id the Outcome
\* Cache row of that tmdb_id holds the first configured preference as wanted
\* type, the candidate's tag as actual type and the candidate's URL.
C7_Claim ==
    (PassOver /\ Selected /\ env.download_ok /\ PublishSucceeds
        /\ TruthyInt(task.item.tmdb_id)) =>
        /\ get(poster_cache, task.item.tmdb_id) # NoRow
        /\ get(poster_cache, task.item.tmdb_id).wanted_type = preferences[1]
        /\ get(poster_cache, task.item.tmdb_id).actual_type = task.source_type
        /\ get(poster_cache, task.item.tmdb_id).poster_url = task.chosen_url

\* the moves of a task status the state machine allows within one pass
Forward(a, b) ==
    \/ a = b
    \/ <<a, b>> \in {<<"pending", "selected">>, <<"selected", "downloaded">>,
                     <<"downloaded", "uploaded">>, <<"pending", "not_found">>,
                     <<"selected", "failed">>, <<"downloaded", "failed">>}

\* C8 as claimed: within one pass the task status only moves forward along
\* pending, selected, downloaded, uploaded, leaving the chain only into
\* not_found (from pending) or failed (from selected or downloaded), and every
\* pass ends with its task in not_found, failed or uploaded, never in pending,
\* selected or downloaded.
C8_Claim ==
    /\ [][(pc \in {"resolve", "upsert", "recorded"}) => Forward(task.status, task'.status)]_vars
    /\ [](PassOver => task.status \in {"not_found", "failed", "uploaded"})

\* C9 as claimed: when the resolver returns absent, process_item returns a
\* not_found failure, the item's row is not_found with last_error "No poster
\* available" and the default retry timer, and the Outcome Cache is untouched.
C9_Claim ==
    (PassOver /\ ~Selected) =>
        /\ pc = "returned"
        /\ task.status = "not_found"
        /\ Key \in DOMAIN job_store
        /\ job_store[Key].status = "not_found"
        /\ job_store[Key].last_error = "No poster available"
        /\ job_store[Key].next_retry_at = now + DefaultRetryHours
        /\ poster_cache = before.poster_cache

\* C10 as claimed: when the publish fails, process_item returns a failed
\* failure and the item's row is failed, with retry_count one above its value
\* before the pass, the failure message and next_retry_at six hours ahead.
C10_Claim ==
    (PassOver /\ Selected /\ env.download_ok /\ ~PublishSucceeds) =>
        /\ pc = "returned"
        /\ task.status = "failed"
        /\ Key \in DOMAIN job_store
        /\ job_store[Key].status = "failed"
        /\ job_store[Key].retry_count = RetryBefore + 1
        /\ job_store[Key].last_error = "Upload to Plex failed"
        /\ job_store[Key].next_retry_at = now + DefaultRetryHours

\* C11 as claimed: when the download of the selected candidate fails,
\* process_item returns a failed failure without decorating or publishing, and
\* the item's row is failed, carries the error text, has retry_count one above
\* its value before the pass and next_retry_at six hours ahead.
C11_Claim ==
    (PassOver /\ Selected /\ ~env.download_ok) =>
        /\ pc = "returned"
        /\ task.status = "failed"
        /\ task.downloaded_file = NoneStr
        /\ task.output_file = NoneStr
        /\ Key \in DOMAIN job_store
        /\ job_store[Key].status = "failed"
        /\ job_store[Key].last_error # NoneStr
        /\ job_store[Key].retry_count = RetryBefore + 1
        /\ job_store[Key].next_retry_at = now + DefaultRetryHours

\* C12: a pass that raises (no pass of this code ends otherwise) leaves the
\* Outcome Cache as it was when the pass began, and no step of a run removes
\* the row of a tmdb_id from the Outcome Cache.
C12_Theorem ==
    /\ [](PassOver => poster_cache = before.poster_cache)
    /\ [][\A k \in 1..Len(poster_cache) :
            get(poster_cache', poster_cache[k].tmdb_id) # NoRow]_vars

\* a pass that selected a candidate for a tmdb_id whose cached URL is another
\* one, and raised
C12_Witness ==
    /\ pc = "raised"
    /\ Selected
    /\ get(poster_cache, task.item.tmdb_id) # NoRow
    /\ get(poster_cache, task.item.tmdb_id).poster_url # task.chosen_url
    /\ Len(poster_cache) = 2

\* C13: a write to a row of the Job State store raises retry_count only when
\* it is an update_status that sets the row's status to failed or not_found,
\* mark_uploaded leaves retry_count at zero, nothing else lowers it, and an
\* upsert or an update_status to downloaded leaves it as it was.
C13_Theorem ==
    [][\A k \in DOMAIN job_store \cap DOMAIN job_store' :
        /\ job_store'[k].retry_count > job_store[k].retry_count =>
              /\ op'.name = "update_status"
              /\ op'.args.media_id = k
              /\ op'.args.status \in {"failed", "not_found"}
              /\ job_store'[k].status = op'.args.status
        /\ job_store'[k].retry_count < job_store[k].retry_count =>
              /\ op'.name = "mark_uploaded"
              /\ op'.args.media_id = k
        /\ (op'.name = "mark_uploaded" /\ op'.args.media_id = k) =>
              /\ job_store'[k].retry_count = 0
              /\ job_store'[k].status = "uploaded"
        /\ (op'.name = "upsert"
              \/ (op'.name = "update_status" /\ op'.args.status = "downloaded")) =>
              job_store'[k].retry_count = job_store[k].retry_count]_vars

\* a row that failed twice and was then updated to downloaded
C13_Witness ==
    /\ op.name = "update_status"
    /\ op.args.status = "downloaded"
    /\ op.args.media_id \in DOMAIN job_store
    /\ job_store[op.args.media_id].retry_count = 2
    /\ job_store[op.args.media_id].status = "downloaded"

\* what save_result stores of an outcome, without the time of the save
Payload(row) ==
    [tmdb_id |-> row.tmdb_id, media_type |-> row.media_type, wanted_type |-> row.wanted_type,
     actual_type |-> row.actual_type, poster_url |-> row.poster_url]

\* C14: the Outcome Cache never holds two rows with the same tmdb_id; right
\* after save_result the row of its tmdb_id carries the media type, wanted
\* type, actual type and URL just saved; and the row of a tmdb_id keeps these
\* four values over every step that is not a save_result for that tmdb_id, so
\* that they are always those of the most recent save.
C14_Theorem ==
    /\ [](\A i, j \in 1..Len(poster_cache) :
            poster_cache[i].tmdb_id = poster_cache[j].tmdb_id => i = j)
    /\ [](op.name = "save_result" =>
            get(poster_cache, op.args.tmdb_id) =
                CacheRow(op.args.tmdb_id, op.args.outcome.media_type,
                         op.args.outcome.wanted_type, op.args.outcome.actual_type,
                         op.args.outcome.poster_url, now))
    /\ [][\A k \in 1..Len(poster_cache) :
            \/ op'.name = "save_result" /\ op'.args.tmdb_id = poster_cache[k].tmdb_id
            \/ Payload(get(poster_cache', poster_cache[k].tmdb_id)) = Payload(poster_cache[k])]_vars

\* the tmdb_id saved first was saved again, later and with other values, while
\* the row of the other tmdb_id stayed
C14_Witness ==
    /\ op.name = "save_result"
    /\ Len(poster_cache) = 2
    /\ poster_cache[1].tmdb_id = op.args.tmdb_id
    /\ poster_cache[1].last_checked = now
    /\ poster_cache[2].last_checked < now
    /\ poster_cache[1].media_type = "show"

\* C15 as claimed: needs_retry answers true exactly when the Outcome Cache has
\* a row for the tmdb_id, the row's actual type differs from the wanted type
\* and the row was last checked at least retry_after_days days ago.
C15_Claim ==
    op.name = "needs_retry" =>
        (op.ret <=>
            /\ get(poster_cache, op.args.tmdb_id) # NoRow
            /\ get(poster_cache, op.args.tmdb_id).actual_type # op.args.wanted_type
            /\ now - get(poster_cache, op.args.tmdb_id).last_checked
                   >= op.args.retry_after_days * HoursPerDay)

\* the rows of the Outcome Cache that are due under the arguments of the call
\* that has just returned
Due ==
    {r \in Range(poster_cache) :
        /\ r.actual_type # op.args.wanted_type
        /\ now - r.last_checked >= op.args.retry_after_days * HoursPerDay}

\* C16: due_retries(retry_after_days, wanted_type, limit) with a limit of zero
\* or more returns rows of the Outcome Cache whose actual type differs from
\* the wanted type and that were last checked at least retry_after_days days
\* ago, each once, oldest last_checked first; it returns all of them when
\* there are at most limit, and otherwise limit of them, none of which was
\* checked later than a due row left out.
C16_Theorem ==
    op.name = "due_retries" =>
        /\ \A i \in 1..Len(op.ret) : op.ret[i] \in Due
        /\ \A i, j \in 1..Len(op.ret) : i # j => op.ret[i] # op.ret[j]
        /\ \A i, j \in 1..Len(op.ret) :
              i < j => op.ret[i].last_checked <= op.ret[j].last_checked
        /\ Len(op.ret) <= op.args.limit
        /\ Len(op.ret) = (IF Cardinality(Due) <= op.args.limit
                          THEN Cardinality(Due) ELSE op.args.limit)
        /\ \A r \in Due \ Range(op.ret) :
              \A i \in 1..Len(op.ret) : op.ret[i].last_checked <= r.last_checked

\* two rows are due, the one stored first was checked later, and a call with
\* limit 1 returned the other one
C16_Witness ==
    /\ op.name = "due_retries"
    /\ op.args.limit = 1
    /\ Cardinality(Due) = 2
    /\ Len(op.ret) = 1
    /\ Len(poster_cache) = 2
    /\ poster_cache[1].last_checked > poster_cache[2].last_checked
    /\ op.ret[1] = poster_cache[2]

\* C17: a provider call that raises makes its adapter return absent; the
\* resolver then queries every later recognised preference entry until one
\* gives a candidate, the pass carries that candidate, and the batch still
\* ends with one result per item.
C17_Theorem ==
    /\ \A k \in 1..Len(calls) :
         calls[k].fault =>
            /\ calls[k].result = NoResult
            /\ pc = "resolve" => pref_i > calls[k].pref
            /\ Resolved =>
                 \A j \in (calls[k].pref + 1)..Len(preferences) :
                    Recognised(preferences[j]) =>
                        \E m \in (k + 1)..Len(calls) :
                            calls[m].pref = j \/ (calls[m].pref < j /\ Hit(m))
    /\ (Resolved /\ calls # <<>> /\ Hit(Len(calls))) =>
         /\ task.status = "selected"
         /\ task.chosen_url = calls[Len(calls)].result.url
    /\ pc = "raised" => exc = UnexpectedKeyword("upsert", "quality_selection")
    /\ pc = "done" => Len(results) = Len(items)

\* the first provider queried raised and a later preference gave the candidate
C17_Witness ==
    /\ pc = "upsert"
    /\ Len(calls) >= 2
    /\ calls[1].fault
    /\ Hit(Len(calls))
    /\ task.chosen_url = calls[Len(calls)].result.url

\* C18 as claimed: when decoration is enabled and apply_overlay gives no file,
\* the pass goes on with the downloaded file as output file and ends uploaded
\* or failed as the publish alone decides.
C18_Claim ==
    (PassOver /\ Selected /\ env.download_ok /\ env.overlay = "fails") =>
        /\ pc = "returned"
        /\ task.downloaded_file # NoneStr
        /\ task.output_file = task.downloaded_file
        /\ task.status = (IF PublishSucceeds THEN "uploaded" ELSE "failed")

\* the candidates of the reply to the get_poster call that has just returned
Candidates == op.args.reply.posters

\* the candidates whose declared language tag is empty or null
Untagged == {k \in 1..Len(Candidates) : Candidates[k].iso_639_1 \in {NoneStr, ""}}

\* C19 as claimed: under mode "textless" get_poster returns the first
\* candidate whose language tag is empty or null, and returns absent only
\* when no candidate has such a tag.
C19_Claim ==
    (op.name = "get_poster" /\ op.args.mode = "textless") =>
        IF Untagged = {} THEN op.ret = NoResult
        ELSE \E k \in Untagged :
                /\ \A j \in Untagged : k <= j
                /\ op.ret = PosterResult(image_base \o Candidates[k].file_path, "textless")

\* the candidates whose language tag is null and that have a file path
NullTagged ==
    {k \in 1..Len(Candidates) :
        Candidates[k].iso_639_1 = NoneStr /\ Candidates[k].file_path \notin {NoneStr, ""}}

\* C19, amended: under mode "textless" get_poster returns the first candidate
\* whose language tag is null (an empty string is a tag) and that has a file
\* path, with the URL built from that path, and returns absent exactly when
\* there is no such candidate.
C19_Theorem ==
    (op.name = "get_poster" /\ op.args.mode = "textless") =>
        IF NullTagged = {} THEN op.ret = NoResult
        ELSE \E k \in NullTagged :
                /\ \A j \in NullTagged : k <= j
                /\ op.ret = PosterResult(image_base \o Candidates[k].file_path, "textless")

\* the first candidate carries the empty tag, the second a null tag, and the
\* second was returned
C19_Witness ==
    /\ op.name = "get_poster"
    /\ op.args.mode = "textless"
    /\ Len(Candidates) = 2
    /\ Candidates[1].iso_639_1 = ""
    /\ Candidates[1].file_path = "/a.jpg"
    /\ Candidates[2].iso_639_1 = NoneStr
    /\ op.ret = PosterResult(image_base \o "/b.jpg", "textless")

\* C20 as claimed: under mode "tmdb_any" get_poster returns a candidate
\* whenever the candidate list is not empty, and it is the first of the list.
C20_Claim ==
    (op.name = "get_poster" /\ op.args.mode = "tmdb_any" /\ Candidates # <<>>) =>
        /\ op.ret # NoResult
        /\ op.ret = PosterResult(image_base \o Candidates[1].file_path, "tmdb_any")

\* C20, amended: under mode "tmdb_any" get_poster returns a candidate exactly
\* when the candidate list is not empty and its first entry has a file path;
\* the candidate is then that first entry, whatever its language tag, and a
\* later entry is never returned.
C20_Theorem ==
    (op.name = "get_poster" /\ op.args.mode = "tmdb_any") =>
        IF Candidates # <<>> /\ Candidates[1].file_path \notin {NoneStr, ""}
        THEN op.ret = PosterResult(image_base \o Candidates[1].file_path, "tmdb_any")
        ELSE op.ret = NoResult

\* the first candidate is tagged "en", the second has a null tag, and the first
\* was returned
C20_Witness ==
    /\ op.name = "get_poster"
    /\ op.args.mode = "tmdb_any"
    /\ Len(Candidates) = 2
    /\ Candidates[1].iso_639_1 = "en"
    /\ Candidates[2].iso_639_1 = NoneStr
    /\ Candidates[2].file_path = "/b.jpg"
    /\ op.ret = PosterResult(image_base \o "/a.jpg", "tmdb_any")

\* the candidates Fanart.tv listed in reply to the get_movie_textless call that
\* has just returned
Listed == op.args.reply.movieposter

\* the first listed candidate among those with the most likes
MostLiked ==
    CHOOSE k \in 1..Len(Listed) :
        /\ \A j \in 1..Len(Listed) : Listed[j].likes <= Listed[k].likes
        /\ \A j \in 1..(k - 1) : Listed[j].likes < Listed[k].likes

\* Fanart.tv was asked and listed candidates
FanartListed ==
    /\ op.name = "get_movie_textless"
    /\ op.args.enabled
    /\ ~op.args.reply.fault
    /\ Listed # <<>>

\* C21 as claimed: get_movie_textless returns the listed candidate with the
\* most likes, and of several with the most likes the one listed first.
C21_Claim ==
    FanartListed => op.ret = PosterResult(Listed[MostLiked].url, "fanart_poster")

\* C21, amended: the candidate get_movie_textless looks at is the one with the
\* most likes, of several the one listed first; it returns that candidate
\* when it has a url and absent when it has none, whatever else is listed.
C21_Theorem ==
    FanartListed =>
        IF Listed[MostLiked].url \notin {NoneStr, ""}
        THEN op.ret = PosterResult(Listed[MostLiked].url, "fanart_poster")
        ELSE op.ret = NoResult

\* two candidates with the same likes and different urls: the first was returned
C21_Witness ==
    /\ FanartListed
    /\ Len(Listed) = 2
    /\ Listed[1].likes = Listed[2].likes
    /\ Listed[1].url = "https://fanart/b"
    /\ Listed[2].url = "https://fanart/a"
    /\ op.ret = PosterResult("https://fanart/b", "fanart_poster")

\* C23: when handle_reset has completed the Job State store holds no row,
\* whatever it held before, and the first upsert after it creates the only
\* row of the store, with retry_count 0, no last_error and no retry timer.
C23_Theorem ==
    /\ []((op.name = "handle_reset" /\ op.ret.completed) => job_store = <<>>)
    /\ [][(op.name = "handle_reset" /\ op.ret.completed /\ op'.name = "upsert") =>
            /\ DOMAIN job_store' = {op'.args.media_id}
            /\ job_store'[op'.args.media_id].retry_count = 0
            /\ job_store'[op'.args.media_id].last_error = NoneStr
            /\ job_store'[op'.args.media_id].next_retry_at = NoneTime]_vars

\* a reset that completed on a store holding a row with two retries counted
C23_Witness ==
    /\ op.name = "handle_reset"
    /\ op.ret.completed
    /\ "tmdb-603" \in DOMAIN op.args.found
    /\ op.args.found["tmdb-603"].retry_count = 2
    /\ job_store = <<>>

\* the items of the reset that has just returned that are in scope, as pairs of
\* section and position
InScope ==
    {x \in (1..Len(op.args.sections)) \X (1..MaxItems) :
        /\ x[2] <= Len(op.args.sections[x[1]].items)
        /\ \/ op.args.libraries = <<>>
           \/ op.args.sections[x[1]].title \in Range(op.args.libraries)}

\* C24: a reset that completes has attempted every item of every section in
\* scope, whichever of them failed, and the count it returns is the number of
\* items in scope whose clear did not raise.
C24_Theorem ==
    (op.name = "handle_reset" /\ op.ret.completed) =>
        /\ op.ret.attempted = Cardinality(InScope)
        /\ op.ret.touched =
             Cardinality({x \in InScope : op.args.sections[x[1]].items[x[2]] # "raises"})

\* the first item of a section in scope failed, the second was still cleared
\* and counted, and the other section was out of scope
C24_Witness ==
    /\ op.name = "handle_reset"
    /\ op.ret.completed
    /\ op.args.libraries = <<"Movies">>
    /\ op.args.sections[1].items = <<"raises", "delete">>
    /\ op.args.sections[2].items = <<"reset">>
    /\ op.ret.touched = 1
    /\ op.ret.attempted = 2

\* the media key the claim gives the item of the current pass, written out for
\* the items of the batch
ClaimedKey ==
    IF task.item.plex_id = 7 THEN "7"
    ELSE IF task.item.tmdb_id = 603 THEN "tmdb-603"
    ELSE task.item.title

\* C22: every call a pass makes to the Job State store passes as media_id the
\* item's catalogue id in decimal if the item has one, otherwise "tmdb-"
\* followed by its subject id if it has one, otherwise its title; and no step
\* of a pass changes the row of another key.
C22_Theorem ==
    /\ [](pc = "raised" => (op.name = "upsert" /\ op.args.media_id = ClaimedKey))
    /\ [][(pc \in {"upsert", "recorded"} /\ op' # op) =>
            (op'.args.media_id = ClaimedKey)]_vars
    /\ [][(pc \in {"resolve", "upsert", "recorded", "raised"}) =>
            (\A k \in (DOMAIN job_store \cup DOMAIN job_store') \ {ClaimedKey} :
                (k \in DOMAIN job_store) /\ (k \in DOMAIN job_store')
                                         /\ (job_store'[k] = job_store[k]))]_vars

\* the store was called for an item with a subject id and no catalogue id
C22_Witness ==
    /\ pc = "raised"
    /\ task.item.plex_id = NoneId
    /\ task.item.tmdb_id = 603
    /\ op.name = "upsert"
    /\ op.args.media_id = "tmdb-603"

\* C25: the filenames _build_filename gives two different items of one batch
\* are different, so no two items write their download to the same file.
C25_Claim ==
    op.name = "_build_filename" => op.ret[1] # op.ret[2]

\* what the code does give: two selected items get the same filename exactly
\* when they have the same subject id and the same type tag
C25_Distinct ==
    op.name = "_build_filename" =>
        LET a == op.args.first
            b == op.args.second
        IN  (op.ret[1] = op.ret[2]) <=>
                (a.item.tmdb_id = b.item.tmdb_id /\ a.source_type = b.source_type)

\* C26 as claimed: after a pass the item's Job State row exists and its
\* retry_count is 0 when the pass ended uploaded and one above its value before
\* the pass when the pass ended not_found or failed, so that it counts the
\* unsuccessful passes in a row.
C26_Claim ==
    PassOver =>
        /\ Key \in DOMAIN job_store
        /\ job_store[Key].retry_count =
              (IF pc = "returned" /\ task.status = "uploaded" THEN 0 ELSE RetryBefore + 1)

\* C30 as claimed: the task of an item without a catalogue id is never
\* uploaded, and a pass on such an item that selects a candidate whose download
\* succeeds returns failed, leaves the item's row failed with a retry timer and
\* writes nothing to the Outcome Cache.
C30_Claim ==
    (task.item.plex_id = NoneId) =>
        /\ task.status # "uploaded"
        /\ (PassOver /\ Selected /\ env.download_ok) =>
              /\ pc = "returned"
              /\ task.status = "failed"
              /\ Key \in DOMAIN job_store
              /\ job_store[Key].status = "failed"
              /\ job_store[Key].next_retry_at # NoneTime
              /\ poster_cache = before.poster_cache

\* needs_retry, asked at the instant of the due_retries call that has just
\* returned and with that call's interval and wanted type
NeedsRetryNow(tmdb_id) ==
    needs_retry(poster_cache, LocalNow, tmdb_id,
                op.args.retry_after_days, op.args.wanted_type)

\* C28 as claimed: a due_retries call with a limit of at least the size of the
\* Outcome Cache returns a row exactly when needs_retry, asked at the same
\* instant with the same interval and wanted type, is true for its tmdb_id.
C28_Claim ==
    (op.name = "due_retries" /\ op.args.limit >= Len(poster_cache)) =>
        \A r \in Range(poster_cache) :
            (r \in Range(op.ret)) <=> NeedsRetryNow(r.tmdb_id)

\* the two policies do agree on a host whose local time is UTC
C28_AgreeOnUtc ==
    (op.name = "due_retries" /\ op.args.limit >= Len(poster_cache) /\ tz = 0) =>
        \A r \in Range(poster_cache) :
            (r \in Range(op.ret)) <=> NeedsRetryNow(r.tmdb_id)

\* the preference entries the claim names as the ones that are queried
NamedEntries == {"fanart", "textless", "tmdb_en", "tmdb_pt", "tmdb_any"}

\* how many of the first n preference entries are named ones
NamedUpTo(n) == Cardinality({j \in 1..n : preferences[j] \in NamedEntries})

\* C31: a preference entry other than "fanart", "textless", "tmdb_en",
\* "tmdb_pt", "tmdb_any" causes no provider query and does not stop the
\* resolver: every call made is for a named entry, the calls made are one per
\* named entry passed so far (up to the hit, or to the end of the list when
\* nothing was found), and a list without a named entry resolves to absent
\* with no call at all.
C31_Theorem ==
    /\ \A k \in 1..Len(calls) : preferences[calls[k].pref] \in NamedEntries
    /\ pc = "resolve" => Len(calls) = NamedUpTo(pref_i - 1)
    /\ (Resolved /\ task.item.tmdb_id # NoneId) =>
          Len(calls) = (IF \E k \in 1..Len(calls) : Hit(k)
                        THEN NamedUpTo(calls[Len(calls)].pref)
                        ELSE NamedUpTo(Len(preferences)))
    /\ (Resolved /\ NamedUpTo(Len(preferences)) = 0) =>
          /\ calls = <<>>
          /\ task.status = "not_found"
          /\ task.chosen_url = NoneStr
          /\ task.source_type = NoneStr

\* the list opens with an entry that is not a named one, and the only call
\* made, for the entry after it, gave the candidate the pass carries
C31_Witness ==
    /\ pc = "upsert"
    /\ Len(preferences) = 2
    /\ preferences[1] \notin NamedEntries
    /\ Len(calls) = 1
    /\ calls[1].pref = 2
    /\ Hit(1)
    /\ task.status = "selected"

\* a list of two entries, neither a named one, resolved for an item with a
\* tmdb_id
C31_WitnessAbsent ==
    /\ pc = "upsert"
    /\ Len(preferences) = 2
    /\ NamedUpTo(2) = 0
    /\ task.item.tmdb_id = 603
    /\ task.status = "not_found"

====
